---- MODULE Spec2Model ----
(***************************************************************************)
(* The download pipeline of telegifdl (src/main.go, func run, lines        *)
(* 117-180): one producer goroutine lists the saved gifs and sends every   *)
(* non-empty document on the buffered channel `gifs`; `jobs` worker         *)
(* goroutines range over the channel, skip documents whose file exists and *)
(* download the others; an errgroup records the first error, cancels the   *)
(* shared context and g.Wait() returns that error.                         *)
(***************************************************************************)
EXTENDS Integers, Sequences, FiniteSets, TLC

\* ------------------------------------------------------------------ bounds
MaxJobs == 2      \* the -j flag is drawn from 1..MaxJobs
MaxPage == 3      \* the listing holds at most MaxPage entries
MaxId == 2        \* document identities are 1..MaxId
MaxRuns == 2      \* program runs against one directory (SpecRuns)
MaxFiles == 3     \* entries of the directory upload reads (SpecUpload)

Ids == 1..MaxId
EmptyDoc == 0     \* a tg.DocumentEmpty entry: AsNotEmpty() reports !ok

\* All sequences over S of length at most n.
SeqsUpTo(S, n) == UNION {[1..k -> S] : k \in 0..n}

Pages == SeqsUpTo(Ids \cup {EmptyDoc}, MaxPage)

\* The listing and directory of the concrete scenario: 5 items, 3 of them
\* already on disk, and the default number of workers.
ScenarioPage == <<1, 2, 3, 4, 5>>
ScenarioExists == {1, 2, 3}
DefaultJobs == 3

\* ------------------------------------------------------------------ errors
NoErr == [kind |-> "nil", task |-> 0, cause |-> "none"]
\* Mutant: the failed listing is answered with `return nil`.
GetErrSwallowed(c) == NoErr
GetErr(c) == [kind |-> "get", task |-> 0, cause |-> c]
\* Mutant: the failed download is answered with `return nil`.
DownloadErrSwallowed(w, c) == NoErr
DownloadErr(w, c) == [kind |-> "download", task |-> w, cause |-> c]

VARIABLES
    jobs,        \* *jobs: worker count and channel capacity
    remote,      \* the saved gifs the service holds (result.Gifs)
    exists,      \* identities whose file <out>/<id>.mp4 exists
    exists0,     \* the directory as it was when the run began
    run,         \* number of the current program run
    cpc,         \* coordinator: "idle", "running", "returned"
    spawned,     \* workers launched so far (loop variable j)
    gifs,        \* buffer of the channel: positions of remote, oldest first
    closes,      \* how many times close(gifs) was executed
    ppc,         \* producer: "idle","start","list","loop","ret","done"
    pidx,        \* producer: next position of result.Gifs to process
    plive,       \* producer: was ctx live when the listing call began
    pres,        \* listing outcome: "none","err","notmod","empty","gifs"
    perr,        \* error the producer function returned
    wpc,         \* worker: "idle","recv","stat","call","download","ret","done"
    wdoc,        \* worker: position of the document it holds (0: none)
    wlive,       \* worker: was ctx live when its download call began
    werr,        \* error the worker function returned
    gerr,        \* g.err, set under errOnce
    groupDone,   \* the errgroup's cancel() was called
    parentDone,  \* the context handed to run was cancelled (interrupt)
    retErr,      \* value returned by g.Wait()
    errLog,      \* history: errors in the order the errgroup saw them
    sent,        \* history: positions sent on the channel, in order
    recvCnt,     \* history: position -> number of receives
    recvLog,     \* history: positions received from the channel, in order
    statCnt,     \* history: number of os.Stat checks
    started,     \* history: position -> number of download calls begun
    transfers,   \* history: identity -> downloads completed in this run
    doneBefore,  \* history: identities downloaded in an earlier run
    prevOk       \* history: the previous run listed the gifs and succeeded

\* State of upload (upload.go), a function of its own that shares nothing
\* with the download pipeline but the API client.
VARIABLES
    udir,        \* os.ReadDir's entries in directory order: the extension of each
    upc,         \* position of upload in its code
    names,       \* names: the .mp4 entries collected at upload.go:23-29
    uidx,        \* index into names of the loop at upload.go:36
    uerr,        \* the variable err of the loop body (upload.go:37, 48)
    upd,         \* the response of sender.Media (upload.go:48)
    sentID,      \* upload.go:58
    sentMedia,   \* upload.go:59
    saveErr,     \* upload.go:86
    uret,        \* the error upload returned
    buffer,      \* entries whose buffer message is in "Saved messages"
    savedGifs,   \* entries saved to the account's saved gifs
    ulog,        \* history: <<entry, step>> for every step attempted
    ufail        \* history: the failure of the step that failed last

upl == <<udir, upc, names, uidx, uerr, upd, sentID, sentMedia, saveErr, uret,
         buffer, savedGifs, ulog, ufail>>

pipe == <<jobs, remote, exists, exists0, run, cpc, spawned, gifs, closes,
          ppc, pidx, plive, pres, perr, wpc, wdoc, wlive, werr, gerr,
          groupDone, parentDone, retErr, errLog, sent, recvCnt, recvLog, statCnt,
          started, transfers, doneBefore, prevOk>>

vars == <<pipe, upl>>

Workers == 1..jobs
Positions == 1..Len(remote)

\* ctx.Done() of the context errgroup.WithContext derived from run's ctx.
CtxDone == parentDone \/ groupDone

\* Mutant: every entry is taken for a document.
AsNotEmptyAlways(d) == TRUE

\* doc.AsNotEmpty()
AsNotEmpty(d) == d # EmptyDoc

\* Identities of the valid entries of a listing.
IdsOf(page) == {page[p] : p \in {q \in 1..Len(page) : AsNotEmpty(page[q])}}
ValidIds == IdsOf(remote)

\* A failure of one call: the step that failed and the entry it worked on.
NilErr == <<"nil", 0>>
Failure(step, e) == <<step, e>>

\* An error value upload returns: the text it adds and the error it wraps.
NoUErr == [wrap |-> "nil", cause |-> NilErr]
UErr(wrap, cause) == [wrap |-> wrap, cause |-> cause]

\* The zero value of the updates variable before sender.Media answered.
NoUpd == [type |-> "none", msg |-> "none", media |-> "nil"]

\* upload before its first statement, on the directory d.
UploadFresh(d) ==
    /\ udir = d
    /\ upc = "idle"
    /\ names = <<>>
    /\ uidx = 1
    /\ uerr = NilErr
    /\ upd = NoUpd
    /\ sentID = 0
    /\ sentMedia = "nil"
    /\ saveErr = NilErr
    /\ uret = NoUErr
    /\ buffer = {}
    /\ savedGifs = {}
    /\ ulog = <<>>
    /\ ufail = NilErr

\* State of one run before the callback of client.Run starts the pipeline.
FreshRun ==
    /\ cpc = "idle" /\ spawned = 0
    /\ gifs = <<>> /\ closes = 0
    /\ ppc = "idle" /\ pidx = 1 /\ plive = TRUE /\ pres = "none" /\ perr = NoErr
    /\ wpc = [w \in Workers |-> "idle"]
    /\ wdoc = [w \in Workers |-> 0]
    /\ wlive = [w \in Workers |-> TRUE]
    /\ werr = [w \in Workers |-> NoErr]
    /\ gerr = NoErr /\ groupDone = FALSE /\ parentDone = FALSE
    /\ retErr = NoErr /\ errLog = <<>>
    /\ sent = <<>>
    /\ recvCnt = [p \in Positions |-> 0]
    /\ recvLog = <<>>
    /\ statCnt = 0
    /\ started = [p \in Positions |-> 0]

Init ==
    /\ jobs \in 1..MaxJobs
    /\ remote \in Pages
    /\ exists \in SUBSET IdsOf(remote)
    /\ exists0 = exists
    /\ run = 1
    /\ transfers = [i \in IdsOf(remote) |-> 0]
    /\ doneBefore = {}
    /\ prevOk = FALSE
    /\ FreshRun
    /\ UploadFresh(<<>>)

\* ------------------------------------------------------------ coordinator
hist == <<errLog, sent, recvCnt, recvLog, statCnt, started, transfers, doneBefore, prevOk>>
env == <<jobs, remote, run, exists0>>
coord == <<cpc, spawned, retErr>>
prod == <<ppc, pidx, plive, pres, perr>>
work == <<wpc, wdoc, wlive, werr>>
group == <<gerr, groupDone>>

\* main.go:118-150: make(chan, *jobs), errgroup.WithContext, g.Go(producer).
CoordStart ==
    /\ cpc = "idle"
    /\ cpc' = "running"
    /\ ppc' = "start"
    /\ UNCHANGED <<upl, env, exists, spawned, retErr, gifs, closes, pidx, plive,
                   pres, perr, work, group, parentDone, hist>>

\* main.go:152-153: one iteration of the loop launching the workers.
CoordSpawn ==
    /\ cpc = "running"
    /\ spawned < jobs
    /\ spawned' = spawned + 1
    /\ wpc' = [wpc EXCEPT ![spawned + 1] = "recv"]
    /\ UNCHANGED <<upl, env, exists, cpc, retErr, gifs, closes, prod, wdoc, wlive,
                   werr, group, parentDone, hist>>

\* Mutant: the coordinator waits for the producer only.
ProducerDoneOnly == ppc = "done"

\* Every goroutine of the group has returned (wg.Wait() is over).
AllTasksDone == ppc = "done" /\ \A w \in Workers : wpc[w] = "done"

\* main.go:180: g.Wait() waits for the tasks, cancels and returns g.err.
CoordWait ==
    /\ cpc = "running"
    /\ spawned = jobs
    /\ AllTasksDone
    /\ cpc' = "returned"
    /\ retErr' = gerr
    /\ groupDone' = TRUE
    /\ UNCHANGED <<upl, env, exists, spawned, gifs, closes, prod, work, gerr,
                   parentDone, hist>>

\* main.go:185: the interrupt signal cancels the context handed to run.
ExternalCancel ==
    /\ cpc = "running"
    /\ ~parentDone
    /\ parentDone' = TRUE
    /\ UNCHANGED <<upl, env, exists, coord, gifs, closes, prod, work, group, hist>>

\* Mutant: the last error overwrites the recorded one.
RecordedErrLast(e) == e

\* errgroup's g.Go wrapper, called at main.go:120 and main.go:153:
\* errOnce.Do keeps the first error.
RecordedErr(e) == IF gerr = NoErr THEN e ELSE gerr

\* Causes a remote call may fail with, given whether ctx was live when it began.
FailCauses(live) ==
    IF ~live THEN {"canceled"}
    ELSE IF CtxDone THEN {"remote", "canceled"}
    ELSE {"remote"}

\* --------------------------------------------------------------- producer
\* Mutant: the deferred close is left out.
CloseGifsForgotten == UNCHANGED closes

\* main.go:121: defer close(gifs).
CloseGifs == closes' = closes + 1

\* main.go:123: api.MessagesGetSavedGifs(ctx, 0) is issued.
ProducerCall ==
    /\ ppc = "start"
    /\ ppc' = "list"
    /\ plive' = ~CtxDone
    /\ UNCHANGED <<upl, env, exists, coord, gifs, closes, pidx, pres, perr, work,
                   group, parentDone, hist>>

\* Mutant: the error path returns before the close is registered.
ProducerListErrNoClose ==
    /\ ppc = "list"
    /\ \E c \in FailCauses(plive) : perr' = GetErr(c)
    /\ pres' = "err"
    /\ ppc' = "ret"
    /\ UNCHANGED <<upl, env, exists, coord, gifs, closes, pidx, plive, work, group,
                   parentDone, hist>>

\* main.go:124-126: the listing call failed; return "get: ..." and close.
ProducerListErr ==
    /\ ppc = "list"
    /\ \E c \in FailCauses(plive) : perr' = GetErr(c)
    /\ pres' = "err"
    /\ ppc' = "ret"
    /\ CloseGifs
    /\ UNCHANGED <<upl, env, exists, coord, gifs, pidx, plive, work, group,
                   parentDone, hist>>

\* Mutant: a not-modified result is reported as a failure.
ProducerListNotModifiedAsErr ==
    /\ ppc = "list"
    /\ plive
    /\ pres' = "notmod"
    /\ perr' = GetErr("remote")
    /\ ppc' = "ret"
    /\ CloseGifs
    /\ UNCHANGED <<upl, env, exists, coord, gifs, pidx, plive, work, group,
                   parentDone, hist>>

\* main.go:129-131: *tg.MessagesSavedGifsNotModified; return nil and close.
ProducerListNotModified ==
    /\ ppc = "list"
    /\ plive
    /\ pres' = "notmod"
    /\ ppc' = "done"
    /\ CloseGifs
    /\ UNCHANGED <<upl, env, exists, coord, gifs, pidx, plive, perr, work, group,
                   parentDone, hist>>

\* main.go:132-136: *tg.MessagesSavedGifs with no entries; return nil and close.
ProducerListEmpty ==
    /\ ppc = "list"
    /\ plive
    /\ Len(remote) = 0
    /\ pres' = "empty"
    /\ ppc' = "done"
    /\ CloseGifs
    /\ UNCHANGED <<upl, env, exists, coord, gifs, pidx, plive, perr, work, group,
                   parentDone, hist>>

\* main.go:132-139: *tg.MessagesSavedGifs with entries; enter the batch loop.
ProducerListGifs ==
    /\ ppc = "list"
    /\ plive
    /\ Len(remote) > 0
    /\ pres' = "gifs"
    /\ ppc' = "loop"
    /\ pidx' = 1
    /\ UNCHANGED <<upl, env, exists, coord, gifs, closes, plive, perr, work, group,
                   parentDone, hist>>

\* main.go:139-143: an entry that is not a document is skipped.
ProducerSkip ==
    /\ ppc = "loop"
    /\ pidx <= Len(remote)
    /\ ~AsNotEmpty(remote[pidx])
    /\ pidx' = pidx + 1
    /\ UNCHANGED <<upl, env, exists, coord, gifs, closes, ppc, plive, pres, perr,
                   work, group, parentDone, hist>>

\* Mutant: the channel is made without a capacity bound.
CanSendUnbounded == TRUE

\* A send on the channel can proceed: the buffer of capacity *jobs has room.
CanSend == Len(gifs) < jobs

\* main.go:145: gifs <- doc, a plain send that waits only for room.
ProducerSend ==
    /\ ppc = "loop"
    /\ pidx <= Len(remote)
    /\ AsNotEmpty(remote[pidx])
    /\ CanSend
    /\ gifs' = Append(gifs, pidx)
    /\ sent' = Append(sent, pidx)
    /\ pidx' = pidx + 1
    /\ UNCHANGED <<upl, env, exists, coord, closes, ppc, plive, pres, perr, work,
                   group, parentDone, errLog, recvCnt, recvLog, statCnt, started,
                   transfers, doneBefore, prevOk>>

\* main.go:147-149: the batch is processed; return nil and close.
ProducerFinish ==
    /\ ppc = "loop"
    /\ pidx > Len(remote)
    /\ ppc' = "done"
    /\ CloseGifs
    /\ UNCHANGED <<upl, env, exists, coord, gifs, pidx, plive, pres, perr, work,
                   group, parentDone, hist>>

\* errgroup's wrapper around the producer: the returned error goes through
\* errOnce, which also cancels the group's context.
ProducerRecord ==
    /\ ppc = "ret"
    /\ gerr' = RecordedErr(perr)
    /\ groupDone' = TRUE
    /\ errLog' = Append(errLog, perr)
    /\ ppc' = "done"
    /\ UNCHANGED <<upl, env, exists, coord, gifs, closes, pidx, plive, pres, perr,
                   work, parentDone, sent, recvCnt, recvLog, statCnt, started,
                   transfers, doneBefore, prevOk>>

Producer ==
    \/ ProducerCall
    \/ ProducerListErr
    \/ ProducerListNotModified
    \/ ProducerListEmpty
    \/ ProducerListGifs
    \/ ProducerSkip
    \/ ProducerSend
    \/ ProducerFinish
    \/ ProducerRecord

\* ---------------------------------------------------------------- workers
\* A receive on the channel can proceed: the buffer holds a document.
CanRecv == gifs # <<>>

\* Mutant: the loop ends as soon as the channel is closed, drained or not.
RangeOverOnClose == closes > 0

\* `range gifs` ends: the channel is closed and drained.
RangeOver == gifs = <<>> /\ closes > 0

\* The buffer after one receive.
AfterRecv == Tail(gifs)

\* main.go:156-162: `for doc := range gifs` receives the oldest document.
WorkerRecv(w) ==
    /\ wpc[w] = "recv"
    /\ CanRecv
    /\ wdoc' = [wdoc EXCEPT ![w] = Head(gifs)]
    /\ gifs' = AfterRecv
    /\ recvCnt' = [recvCnt EXCEPT ![Head(gifs)] = @ + 1]
    /\ recvLog' = Append(recvLog, Head(gifs))
    /\ wpc' = [wpc EXCEPT ![w] = "stat"]
    /\ UNCHANGED <<upl, env, exists, coord, closes, prod, wlive, werr, group,
                   parentDone, errLog, sent, statCnt, started, transfers,
                   doneBefore, prevOk>>

\* main.go:156,176: the range loop ends on the closed, drained channel;
\* the worker returns nil.
WorkerExit(w) ==
    /\ wpc[w] = "recv"
    /\ RangeOver
    /\ wpc' = [wpc EXCEPT ![w] = "done"]
    /\ UNCHANGED <<upl, env, exists, coord, gifs, closes, prod, wdoc, wlive, werr,
                   group, parentDone, hist>>

\* Mutant: the existence check is left out.
FileExistsNever(id) == FALSE

\* Mutant: the test of os.Stat's error is inverted.
FileExistsInverted(id) == id \notin exists

\* main.go:157: gifPath is a function of doc.ID alone, so a path is its identity.
\* main.go:164: os.Stat(gifPath) reports no error.
FileExists(id) == id \in exists

\* main.go:164-167: the file exists; continue with the next document.
WorkerStatSkip(w) ==
    /\ wpc[w] = "stat"
    /\ FileExists(remote[wdoc[w]])
    /\ statCnt' = statCnt + 1
    /\ wpc' = [wpc EXCEPT ![w] = "recv"]
    /\ wdoc' = [wdoc EXCEPT ![w] = 0]
    /\ UNCHANGED <<upl, env, exists, coord, gifs, closes, prod, wlive, werr, group,
                   parentDone, errLog, sent, recvCnt, recvLog, started, transfers,
                   doneBefore, prevOk>>

\* main.go:164,170: no file; go on to the download.
WorkerStatMiss(w) ==
    /\ wpc[w] = "stat"
    /\ ~FileExists(remote[wdoc[w]])
    /\ statCnt' = statCnt + 1
    /\ wpc' = [wpc EXCEPT ![w] = "call"]
    /\ UNCHANGED <<upl, env, exists, coord, gifs, closes, prod, wdoc, wlive, werr,
                   group, parentDone, errLog, sent, recvCnt, recvLog, started,
                   transfers, doneBefore, prevOk>>

\* main.go:171: d.Download(api, loc).ToPath(ctx, gifPath) is called. The
\* downloader may create the output file before any byte arrives.
WorkerDownloadStart(w) ==
    /\ wpc[w] = "call"
    /\ wpc' = [wpc EXCEPT ![w] = "download"]
    /\ wlive' = [wlive EXCEPT ![w] = ~CtxDone]
    /\ started' = [started EXCEPT ![wdoc[w]] = @ + 1]
    /\ exists' \in {exists, exists \cup {remote[wdoc[w]]}}
    /\ UNCHANGED <<upl, env, coord, gifs, closes, prod, wdoc, werr, group,
                   parentDone, errLog, sent, recvCnt, recvLog, statCnt, transfers,
                   doneBefore, prevOk>>

\* main.go:171: the download returned no error; the file is written and the
\* loop goes on. A call begun on a cancelled context cannot succeed (the rate
\* limiter of main.go:107 refuses it).
WorkerDownloadOk(w) ==
    /\ wpc[w] = "download"
    /\ wlive[w]
    /\ exists' = exists \cup {remote[wdoc[w]]}
    /\ transfers' = [transfers EXCEPT ![remote[wdoc[w]]] = @ + 1]
    /\ wpc' = [wpc EXCEPT ![w] = "recv"]
    /\ wdoc' = [wdoc EXCEPT ![w] = 0]
    /\ UNCHANGED <<upl, env, coord, gifs, closes, prod, wlive, werr, group,
                   parentDone, errLog, sent, recvCnt, recvLog, statCnt, started,
                   doneBefore, prevOk>>

\* main.go:171-173: the download failed; return "download: ...".
WorkerDownloadFail(w) ==
    /\ wpc[w] = "download"
    /\ \E c \in FailCauses(wlive[w]) :
           werr' = [werr EXCEPT ![w] = DownloadErr(w, c)]
    /\ wpc' = [wpc EXCEPT ![w] = "ret"]
    /\ UNCHANGED <<upl, env, exists, coord, gifs, closes, prod, wdoc, wlive, group,
                   parentDone, hist>>

\* errgroup's wrapper around a worker: the returned error goes through errOnce,
\* which also cancels the group's context.
WorkerRecord(w) ==
    /\ wpc[w] = "ret"
    /\ gerr' = RecordedErr(werr[w])
    /\ groupDone' = TRUE
    /\ errLog' = Append(errLog, werr[w])
    /\ wpc' = [wpc EXCEPT ![w] = "done"]
    /\ UNCHANGED <<upl, env, exists, coord, gifs, closes, prod, wdoc, wlive, werr,
                   parentDone, sent, recvCnt, recvLog, statCnt, started, transfers,
                   doneBefore, prevOk>>

Worker(w) ==
    \/ WorkerRecv(w)
    \/ WorkerExit(w)
    \/ WorkerStatSkip(w)
    \/ WorkerStatMiss(w)
    \/ WorkerDownloadStart(w)
    \/ WorkerDownloadOk(w)
    \/ WorkerDownloadFail(w)
    \/ WorkerRecord(w)

Coordinator == CoordStart \/ CoordSpawn \/ CoordWait

\* ---------------------------------------------------------- specifications
\* The steps of the program's goroutines.
Program ==
    \/ CoordStart
    \/ CoordSpawn
    \/ CoordWait
    \/ ProducerCall
    \/ ProducerListErr
    \/ ProducerListNotModified
    \/ ProducerListEmpty
    \/ ProducerListGifs
    \/ ProducerSkip
    \/ ProducerSend
    \/ ProducerFinish
    \/ ProducerRecord
    \/ \E w \in Workers : WorkerRecv(w)
    \/ \E w \in Workers : WorkerExit(w)
    \/ \E w \in Workers : WorkerStatSkip(w)
    \/ \E w \in Workers : WorkerStatMiss(w)
    \/ \E w \in Workers : WorkerDownloadStart(w)
    \/ \E w \in Workers : WorkerDownloadOk(w)
    \/ \E w \in Workers : WorkerDownloadFail(w)
    \/ \E w \in Workers : WorkerRecord(w)

Next == Program \/ ExternalCancel

Spec == Init /\ [][Next]_vars

\* Every goroutine that can take a step eventually takes one (each listing and
\* download call returns); the interrupt is under no obligation to arrive.
Fairness ==
    /\ WF_vars(Coordinator)
    /\ WF_vars(Producer)
    /\ \A w \in 1..MaxJobs : WF_vars(w \in Workers /\ Worker(w))

FairSpec == Spec /\ Fairness

\* The runs of Spec and, beside them, the concrete scenario.
InitScenario ==
    /\ jobs = DefaultJobs
    /\ remote = ScenarioPage
    /\ exists = ScenarioExists
    /\ exists0 = exists
    /\ run = 1
    /\ transfers = [i \in IdsOf(remote) |-> 0]
    /\ doneBefore = {}
    /\ prevOk = FALSE
    /\ FreshRun
    /\ UploadFresh(<<>>)

SpecScenario == (Init \/ InitScenario) /\ [][Next]_vars

\* The program is run again on the same directory and the same saved gifs
\* (main.go:184-190 from the start), after a run that returned.
Restart ==
    /\ cpc = "returned"
    /\ run < MaxRuns
    /\ run' = run + 1
    /\ exists0' = exists
    /\ doneBefore' = doneBefore \cup {i \in IdsOf(remote) : transfers[i] > 0}
    /\ prevOk' = (retErr = NoErr /\ pres = "gifs")
    /\ transfers' = [i \in IdsOf(remote) |-> 0]
    /\ cpc' = "idle" /\ spawned' = 0
    /\ gifs' = <<>> /\ closes' = 0
    /\ ppc' = "idle" /\ pidx' = 1 /\ plive' = TRUE /\ pres' = "none"
    /\ perr' = NoErr
    /\ wpc' = [w \in Workers |-> "idle"]
    /\ wdoc' = [w \in Workers |-> 0]
    /\ wlive' = [w \in Workers |-> TRUE]
    /\ werr' = [w \in Workers |-> NoErr]
    /\ gerr' = NoErr /\ groupDone' = FALSE /\ parentDone' = FALSE
    /\ retErr' = NoErr /\ errLog' = <<>>
    /\ sent' = <<>>
    /\ recvCnt' = [p \in Positions |-> 0]
    /\ recvLog' = <<>>
    /\ statCnt' = 0
    /\ started' = [p \in Positions |-> 0]
    /\ UNCHANGED <<upl, jobs, remote, exists>>

NextRuns == Next \/ Restart

SpecRuns == Init /\ [][NextRuns]_vars

\* ------------------------------------------------------------- predicates
Returned == cpc = "returned"

\* The run got no interrupt and no task reported an error.
NoCancelNoError == ~parentDone /\ errLog = <<>>

\* No listing or download call has failed so far.
NoFailureYet == pres # "err" /\ \A w \in Workers : werr[w] = NoErr

\* The valid entries of the listing have pairwise distinct identities.
DistinctIds ==
    \A p, q \in Positions :
        (p # q /\ AsNotEmpty(remote[p]) /\ AsNotEmpty(remote[q]))
            => remote[p] # remote[q]

RECURSIVE SumOver(_, _)
SumOver(f, S) ==
    IF S = {} THEN 0
    ELSE LET x == CHOOSE y \in S : TRUE IN f[x] + SumOver(f, S \ {x})

\* Downloads completed in this run.
TotalTransfers == SumOver(transfers, ValidIds)

\* No goroutine can take a step although the run has not returned.
Stuck == ~Returned /\ ~ENABLED Program

\* ------------------------------------------------------------------ claims

\* C1: with distinct identities, an item is downloaded at most once and never
\* when its file was there when the run began; while no call has failed and no
\* interrupt came the run is never stuck; and a run that returns without
\* interrupt or error listed the gifs, downloaded every valid item whose file
\* was missing exactly once (K minus the pre-existing ones in total), returned
\* nil, closed the channel and has all its workers exited.
C1_ExactlyOnce ==
    /\ DistinctIds =>
           \A i \in ValidIds :
               /\ transfers[i] <= 1
               /\ (i \in exists0 => transfers[i] = 0)
    /\ (~parentDone /\ NoFailureYet) => ~Stuck
    /\ (Returned /\ NoCancelNoError /\ pres = "gifs" /\ DistinctIds) =>
           /\ \A i \in ValidIds :
                  transfers[i] = IF i \in exists0 THEN 0 ELSE 1
           /\ TotalTransfers
                  = Cardinality(ValidIds) - Cardinality(ValidIds \cap exists0)
           /\ retErr = NoErr
           /\ closes = 1
           /\ \A w \in Workers : wpc[w] = "done"

\* The scenario ran to its end without failure: 2 downloads, success.
C1_Witness ==
    /\ remote = ScenarioPage /\ exists0 = ScenarioExists /\ jobs = DefaultJobs
    /\ Returned /\ NoCancelNoError
    /\ TotalTransfers = 2
    /\ retErr = NoErr

\* C2: no document sent on the channel is received more than once, and when a
\* run returns without interrupt or task error every document sent was
\* received exactly once and the channel is empty.
C2_SingleConsumer ==
    /\ \A p \in Positions : recvCnt[p] <= 1
    /\ (Returned /\ NoCancelNoError) =>
           /\ gifs = <<>>
           /\ \A k \in 1..Len(sent) : recvCnt[sent[k]] = 1

\* Two workers shared a listing of three documents and the run ended cleanly.
C2_Witness ==
    /\ Returned /\ NoCancelNoError
    /\ jobs = 2
    /\ Len(sent) = 3
    /\ \A k \in 1..Len(sent) : recvCnt[sent[k]] = 1

\* C3: the run always terminates: there is no state in which the run has not
\* returned and no goroutine can take a step.
C3_Terminates == ~Stuck

\* C4: the errgroup holds the first error it saw and has cancelled the context
\* from the moment that error is recorded; g.Wait() returns that first error
\* (nil when there was none), whatever errors came later.
C4_FirstErrorWins ==
    /\ (errLog = <<>>) <=> (gerr = NoErr)
    /\ errLog # <<>> => (gerr = errLog[1] /\ groupDone)
    /\ Returned => retErr = (IF errLog = <<>> THEN NoErr ELSE errLog[1])

\* A worker failed, a sibling then failed because of the cancellation, and the
\* run returned.
C4_Witness ==
    /\ Returned
    /\ Len(errLog) >= 2
    /\ errLog[2] # errLog[1]
    /\ errLog[1].cause = "remote"
    /\ errLog[2].cause = "canceled"

\* State of the run: Idle, Running, Succeeded or Failed.
Phase ==
    CASE cpc = "idle" -> "Idle"
      [] cpc = "running" -> "Running"
      [] cpc = "returned" /\ retErr = NoErr -> "Succeeded"
      [] OTHER -> "Failed"

\* Some task has returned an error.
SomeTaskFailed == perr # NoErr \/ \E w \in Workers : werr[w] # NoErr

\* C5: the run moves Idle -> Running -> Succeeded or Failed and nowhere else;
\* it never succeeds once a task has returned an error; and it succeeds only
\* with the producer finished without error, the channel closed (and drained)
\* and every worker exited without error.
C5_StateMachine ==
    /\ [](Phase = "Succeeded" =>
             /\ ~SomeTaskFailed
             /\ errLog = <<>>
             /\ ppc = "done"
             /\ closes = 1
             /\ gifs = <<>>
             /\ spawned = jobs
             /\ \A w \in Workers : wpc[w] = "done")
    /\ [][/\ Phase # Phase' =>
               \/ Phase = "Idle" /\ Phase' = "Running"
               \/ Phase = "Running" /\ Phase' \in {"Succeeded", "Failed"}
          /\ (SomeTaskFailed => SomeTaskFailed' /\ Phase' # "Succeeded")]_vars

\* A run with two workers that succeeded after downloading something.
C5_Witness == Phase = "Succeeded" /\ TotalTransfers > 0 /\ jobs = 2

\* C6: over successive runs on one directory, an identity downloaded in an
\* earlier run is never downloaded again; and a run that lists the gifs after
\* a run that listed them and succeeded begins no download, completes none and
\* returns nil.
C6_Idempotent ==
    /\ \A i \in doneBefore : transfers[i] = 0
    /\ (prevOk /\ pres = "gifs") =>
           /\ \A i \in ValidIds : transfers[i] = 0
           /\ \A p \in Positions : started[p] = 0
           /\ ~SomeTaskFailed
           /\ Returned => retErr = NoErr

\* A second run returned after a first one that downloaded something and
\* succeeded; every item was skipped by the existence check.
C6_Witness ==
    /\ run = 2 /\ prevOk /\ doneBefore # {}
    /\ pres = "gifs" /\ Returned /\ retErr = NoErr
    /\ statCnt = Len(sent) /\ statCnt > 0

\* C7: close(gifs) runs at most once and exactly when the producer function
\* returns, on each of its exit paths; nobody else closes the channel; and no
\* send happens on the closed channel.
C7_ClosedOnce ==
    /\ [](/\ closes <= 1
          /\ (ppc \in {"ret", "done"}) <=> (closes = 1)
          /\ pres \in {"err", "notmod", "empty"} => closes = 1)
    /\ [][/\ closes' # closes => (ppc \in {"list", "loop"} /\ ppc' \in {"ret", "done"})
          /\ sent' # sent => (closes = 0 /\ closes' = 0)]_vars

\* The producer left on the error path and the channel is closed.
C7_Witness == pres = "err" /\ ppc = "done" /\ closes = 1 /\ Returned

\* C8: with every goroutine scheduled fairly and every call returning, all
\* workers eventually terminate; a worker that has terminated either returned a
\* download error or saw the channel closed and drained.
C8_WorkersTerminate ==
    /\ <>(spawned = jobs /\ \A w \in Workers : wpc[w] = "done")
    /\ [](\A w \in Workers :
             wpc[w] = "done" =>
                 \/ werr[w].kind = "download"
                 \/ werr[w] = NoErr /\ closes = 1 /\ gifs = <<>>)

\* One worker ended on a download error, the other on the closed channel, in
\* a run that was interrupted.
C8_Witness ==
    /\ jobs = 2 /\ parentDone
    /\ \A w \in Workers : wpc[w] = "done"
    /\ werr[1].kind = "download" /\ werr[2] = NoErr

\* C9: once the context is cancelled no worker receives a document and no
\* download is begun.
C9_StopOnCancel ==
    [][CtxDone => (recvCnt' = recvCnt /\ started' = started)]_vars

\* The listing came back not modified, or with zero entries.
Degenerate == pres \in {"notmod", "empty"}

\* C10: after a not-modified or empty listing nothing is sent, the channel is
\* closed, no existence check and no download happens, no task fails, and the
\* run goes on to return nil with every worker exited.
C10_DegenerateListing ==
    /\ [](Degenerate =>
             /\ sent = <<>> /\ gifs = <<>>
             /\ closes = 1
             /\ statCnt = 0
             /\ \A p \in Positions : started[p] = 0
             /\ \A i \in ValidIds : transfers[i] = 0
             /\ ~SomeTaskFailed
             /\ Returned => (retErr = NoErr /\ \A w \in Workers : wpc[w] = "done"))
    /\ Degenerate ~> (Returned /\ retErr = NoErr)

\* A degenerate listing was seen through to a successful return by two workers.
C10_Witness == Degenerate /\ Returned /\ retErr = NoErr /\ jobs = 2

\* C11: after a failed listing call nothing is sent, the channel is closed, no
\* existence check and no download happens, the only error of the run is the
\* listing error, and the run goes on to return it with every worker exited.
C11_ListingFailure ==
    /\ [](pres = "err" =>
             /\ sent = <<>> /\ gifs = <<>>
             /\ closes = 1
             /\ statCnt = 0
             /\ \A p \in Positions : started[p] = 0
             /\ \A i \in ValidIds : transfers[i] = 0
             /\ perr.kind = "get"
             /\ \A w \in Workers : werr[w] = NoErr
             /\ Returned => (/\ retErr = perr
                             /\ \A w \in Workers : wpc[w] = "done"))
    /\ (pres = "err") ~> (Returned /\ retErr.kind = "get")

\* A listing that holds documents failed and two workers left empty-handed.
C11_Witness ==
    /\ pres = "err" /\ Returned /\ retErr.kind = "get"
    /\ jobs = 2 /\ ValidIds # {}

\* The producer stands at `gifs <- doc` with a document to send.
AtSend == ppc = "loop" /\ pidx <= Len(remote) /\ remote[pidx] # EmptyDoc

\* Documents sent and not yet received.
Unconsumed == Len(sent) - SumOver(recvCnt, Positions)

\* C12: the channel holds at most *jobs documents, these are the documents sent
\* and not yet received, and with *jobs of them unconsumed no send happens: a
\* producer standing at the send cannot take a step.
C12_Backpressure ==
    /\ [](/\ Unconsumed = Len(gifs)
          /\ Unconsumed <= jobs
          /\ (Unconsumed = jobs /\ AtSend) => ~ENABLED Producer)
    /\ [][Unconsumed = jobs => sent' = sent]_vars

\* The channel is full and the producer waits with one more document.
C12_Witness == Unconsumed = jobs /\ AtSend /\ jobs = 2

\* The positions up to n of the listing that hold a document, in page order.
DocsUpTo(n) ==
    SelectSeq([p \in 1..n |-> p], LAMBDA p : remote[p] # EmptyDoc)

\* C14: what the producer has sent is exactly the documents among the entries
\* it has gone through, in page order (all of them once the batch loop is over,
\* nothing unless the listing gave a page); skipping an entry that is not a
\* document sends nothing and records no error, and the producer of a listed
\* page returns no error; the workers receive in the order of sending.
C14_FilterAndOrder ==
    /\ [](/\ sent = (IF pres = "gifs" THEN DocsUpTo(pidx - 1) ELSE <<>>)
          /\ (pres = "gifs" /\ ppc = "done") => sent = DocsUpTo(Len(remote))
          /\ pres = "gifs" => perr = NoErr
          /\ recvLog \o gifs = sent)
    /\ [][(ppc = "loop" /\ pidx' # pidx /\ remote[pidx] = EmptyDoc) =>
              UNCHANGED <<sent, gifs, perr, errLog, gerr, ppc>>]_vars

\* A page with an entry that is no document between two documents was sent
\* and received in order by two workers.
C14_Witness ==
    /\ pres = "gifs" /\ ppc = "done" /\ jobs = 2
    /\ Len(remote) = 3 /\ remote[2] = EmptyDoc
    /\ sent = <<1, 3>> /\ recvLog = sent

\* Some worker's download has failed.
SomeWorkerFailed == \E w \in Workers : werr[w] # NoErr

\* Neither retried nor swallowed, as far as the worker itself goes: a download
\* is begun at most once per document received; a worker whose download failed
\* holds a "download" error, receives nothing more and only hands its error to
\* the errgroup; a run that returns after such a failure returns an error.
C13_WorkerPart ==
    /\ [](/\ \A p \in Positions : started[p] <= recvCnt[p]
          /\ \A w \in Workers :
                 werr[w] # NoErr =>
                     /\ werr[w].kind = "download" /\ werr[w].task = w
                     /\ wpc[w] \in {"ret", "done"}
          /\ (Returned /\ SomeWorkerFailed) => retErr # NoErr)
    /\ [][\A w \in Workers :
              werr[w] # NoErr =>
                  /\ werr'[w] = werr[w] /\ wdoc'[w] = wdoc[w]
                  /\ wpc'[w] \in {"ret", "done"}]_vars

\* C13: a failed download is neither retried nor swallowed: at most one
\* download call per document dequeued, and once a worker's download has failed
\* the run goes on to return a non-nil error, so it is never left with no
\* goroutine able to step before it has returned.
C13_FailureSurfaces ==
    /\ \A p \in Positions : started[p] <= recvCnt[p]
    /\ (Returned /\ SomeWorkerFailed) => retErr # NoErr
    /\ SomeWorkerFailed => ~Stuck

\* Downloads begun for identity i in this run.
StartedFor(i) ==
    SumOver(started, {p \in Positions : remote[p] = i})

\* C19: whatever the listing, two workers are never inside a download to the
\* same path at once, and no path has more than one download begun in a run.
C19_NoConcurrentWriters ==
    /\ \A v, w \in Workers :
           (v # w /\ wpc[v] = "download" /\ wpc[w] = "download")
               => remote[wdoc[v]] # remote[wdoc[w]]
    /\ \A i \in ValidIds : StartedFor(i) <= 1

\* C20: a run that returns nil, interrupted or not, has received every document
\* of the listing it was given, checked each of them, and left a file for each.
C20_SuccessMeansComplete ==
    (Returned /\ retErr = NoErr /\ pres # "notmod") =>
        /\ sent = DocsUpTo(Len(remote))
        /\ recvLog = sent
        /\ statCnt = Len(sent)
        /\ \A i \in ValidIds : i \in exists
        /\ \A i \in ValidIds : i \in exists0 \/ transfers[i] >= 1

\* An interrupted run that still returned nil, after downloading something.
C20_Witness ==
    /\ Returned /\ retErr = NoErr /\ pres = "gifs"
    /\ parentDone
    /\ TotalTransfers > 0

\* ------------------------------------------------------------------ upload
\* upload.go: every .mp4 file of a directory is sent to "Saved messages",
\* looked up in the response, saved as a gif, and its buffer message deleted.

\* path.Ext of a directory entry.
Exts == {".mp4", ".txt"}
Dirs == SeqsUpTo(Exts, MaxFiles)

\* What sender.Media can answer with on success: the type of the updates
\* value, the message an UpdateNewMessage carries, and the media of the
\* message that was sent.
Medias == {"doc", "emptydoc", "other"}
Responses ==
    {[type |-> "short", msg |-> "none", media |-> m] : m \in Medias}
    \cup {[type |-> "updates", msg |-> "message", media |-> m] : m \in Medias}
    \cup {[type |-> "updates", msg |-> k, media |-> "nil"] : k \in {"service", "none"}}
    \cup {[type |-> "other", msg |-> "none", media |-> "nil"]}

\* The entry the loop body is working on.
Cur == names[uidx]

UploadReturned == upc = "returned"

\* A return statement of upload with the error e.
UploadReturn(e) ==
    /\ upc' = "returned"
    /\ uret' = e

Attempt(step) == ulog' = Append(ulog, <<Cur, step>>)

\* os.ReadDir fails.
UploadReadDirErr ==
    /\ upc = "idle"
    /\ ufail' = Failure("dir", 0)
    /\ UploadReturn(UErr("dir", Failure("dir", 0)))
    /\ UNCHANGED <<pipe, udir, names, uidx, uerr, upd, sentID, sentMedia,
                   saveErr, buffer, savedGifs, ulog>>

\* os.ReadDir succeeds and the .mp4 entries are collected in its order.
UploadReadDir ==
    /\ upc = "idle"
    /\ names' = SelectSeq([e \in 1..Len(udir) |-> e], LAMBDA e : udir[e] = ".mp4")
    /\ uidx' = 1
    /\ upc' = "loop"
    /\ UNCHANGED <<pipe, udir, uerr, upd, sentID, sentMedia, saveErr, uret,
                   buffer, savedGifs, ulog, ufail>>

\* The range over names is exhausted.
UploadDone ==
    /\ upc = "loop" /\ uidx > Len(names)
    /\ UploadReturn(NoUErr)
    /\ UNCHANGED <<pipe, udir, names, uidx, uerr, upd, sentID, sentMedia,
                   saveErr, buffer, savedGifs, ulog, ufail>>

\* A variant that goes on with the next name when u.FromPath fails.
UploadFromPathErrContinue ==
    /\ upc = "loop" /\ uidx <= Len(names)
    /\ Attempt("from")
    /\ uerr' = Failure("from", Cur)
    /\ ufail' = uerr'
    /\ uidx' = uidx + 1
    /\ UNCHANGED <<pipe, udir, upc, names, upd, sentID, sentMedia, saveErr,
                   uret, buffer, savedGifs>>

\* u.FromPath fails.
UploadFromPathErr ==
    /\ upc = "loop" /\ uidx <= Len(names)
    /\ Attempt("from")
    /\ uerr' = Failure("from", Cur)
    /\ ufail' = uerr'
    /\ UploadReturn(UErr("none", uerr'))
    /\ UNCHANGED <<pipe, udir, names, uidx, upd, sentID, sentMedia, saveErr,
                   buffer, savedGifs>>

\* u.FromPath uploads the file.
UploadFromPathOk ==
    /\ upc = "loop" /\ uidx <= Len(names)
    /\ Attempt("from")
    /\ uerr' = NilErr
    /\ upc' = "send"
    /\ UNCHANGED <<pipe, udir, names, uidx, upd, sentID, sentMedia, saveErr,
                   uret, buffer, savedGifs, ufail>>

\* sender.Media fails: no message was sent.
UploadSendErr ==
    /\ upc = "send"
    /\ Attempt("send")
    /\ uerr' = Failure("send", Cur)
    /\ ufail' = uerr'
    /\ UploadReturn(UErr("none", uerr'))
    /\ UNCHANGED <<pipe, udir, names, uidx, upd, sentID, sentMedia, saveErr,
                   buffer, savedGifs>>

\* sender.Media sends the file to "Saved messages" and answers with updates.
UploadSendOk ==
    /\ upc = "send"
    /\ Attempt("send")
    /\ uerr' = NilErr
    /\ upd' \in Responses
    /\ buffer' = buffer \cup {Cur}
    /\ sentID' = 0 /\ sentMedia' = "nil"
    /\ upc' = "lookup"
    /\ UNCHANGED <<pipe, udir, names, uidx, saveErr, uret, savedGifs, ufail>>

\* The switch at upload.go:61-79 found the sent message.
Found(u) == u.type = "short" \/ (u.type = "updates" /\ u.msg = "message")

\* One of the two unchecked type assertions does not hold: u.Message is not
\* a *tg.Message, or sentMedia is not a *tg.MessageMediaDocument.
UploadLookupPanic ==
    /\ upc = "lookup"
    /\ \/ upd.type = "updates" /\ upd.msg = "service"
          /\ UNCHANGED <<sentID, sentMedia>>
       \/ Found(upd) /\ upd.media = "other"
          /\ sentID' = Cur /\ sentMedia' = upd.media
    /\ Attempt("lookup")
    /\ upc' = "panicked"
    /\ UNCHANGED <<pipe, udir, names, uidx, uerr, upd, saveErr, uret, buffer,
                   savedGifs, ufail>>

\* The *tg.Updates hold no UpdateNewMessage: sentID is still 0.
UploadLookupNoMessage ==
    /\ upc = "lookup"
    /\ upd.type = "updates" /\ upd.msg = "none"
    /\ Attempt("lookup")
    /\ ufail' = Failure("lookup", Cur)
    /\ UploadReturn(UErr("unable to find sent message", ufail'))
    /\ UNCHANGED <<pipe, udir, names, uidx, uerr, upd, sentID, sentMedia,
                   saveErr, buffer, savedGifs>>

\* The default case of the type switch.
UploadLookupBadType ==
    /\ upc = "lookup"
    /\ upd.type = "other"
    /\ Attempt("lookup")
    /\ ufail' = Failure("lookup", Cur)
    /\ UploadReturn(UErr("unexpected update type", ufail'))
    /\ UNCHANGED <<pipe, udir, names, uidx, uerr, upd, sentID, sentMedia,
                   saveErr, buffer, savedGifs>>

\* The sent message is found, its document is a tg.DocumentEmpty.
UploadLookupBadDoc ==
    /\ upc = "lookup"
    /\ Found(upd) /\ upd.media = "emptydoc"
    /\ sentID' = Cur /\ sentMedia' = upd.media
    /\ Attempt("lookup")
    /\ ufail' = Failure("lookup", Cur)
    /\ UploadReturn(UErr("unexpected document", ufail'))
    /\ UNCHANGED <<pipe, udir, names, uidx, uerr, upd, saveErr, buffer,
                   savedGifs>>

\* The sent message is found and carries the uploaded document.
UploadLookupFound ==
    /\ upc = "lookup"
    /\ Found(upd) /\ upd.media = "doc"
    /\ sentID' = Cur /\ sentMedia' = upd.media
    /\ Attempt("lookup")
    /\ upc' = "save"
    /\ UNCHANGED <<pipe, udir, names, uidx, uerr, upd, saveErr, uret, buffer,
                   savedGifs, ufail>>

\* api.MessagesSaveGif saves the document.
UploadSaveOk ==
    /\ upc = "save"
    /\ Attempt("save")
    /\ saveErr' = NilErr
    /\ savedGifs' = savedGifs \cup {Cur}
    /\ upc' = "delete"
    /\ UNCHANGED <<pipe, udir, names, uidx, uerr, upd, sentID, sentMedia,
                   uret, buffer, ufail>>

\* A variant that returns the save error as soon as the save fails.
UploadSaveErrReturns ==
    /\ upc = "save"
    /\ Attempt("save")
    /\ saveErr' = Failure("save", Cur)
    /\ ufail' = saveErr'
    /\ UploadReturn(UErr("save", saveErr'))
    /\ UNCHANGED <<pipe, udir, names, uidx, uerr, upd, sentID, sentMedia,
                   buffer, savedGifs>>

\* api.MessagesSaveGif fails: the error is kept in saveErr for later.
UploadSaveErr ==
    /\ upc = "save"
    /\ Attempt("save")
    /\ saveErr' = Failure("save", Cur)
    /\ ufail' = saveErr'
    /\ upc' = "delete"
    /\ UNCHANGED <<pipe, udir, names, uidx, uerr, upd, sentID, sentMedia,
                   uret, buffer, savedGifs>>

\* sender.Revoke().Messages fails: upload.go:92 wraps err, the variable of
\* upload.go:48, and not deleteErr.
UploadDeleteErr ==
    /\ upc = "delete"
    /\ Attempt("delete")
    /\ ufail' = Failure("delete", Cur)
    /\ UploadReturn(UErr("delete", uerr))
    /\ UNCHANGED <<pipe, udir, names, uidx, uerr, upd, sentID, sentMedia,
                   saveErr, buffer, savedGifs>>

\* The buffer message is deleted, and the save had failed.
UploadDeleteOkSaveErr ==
    /\ upc = "delete"
    /\ saveErr # NilErr
    /\ Attempt("delete")
    /\ buffer' = buffer \ {sentID}
    /\ UploadReturn(UErr("save", saveErr))
    /\ UNCHANGED <<pipe, udir, names, uidx, uerr, upd, sentID, sentMedia,
                   saveErr, savedGifs, ufail>>

\* The buffer message is deleted after a save: on to the next name.
UploadDeleteOk ==
    /\ upc = "delete"
    /\ saveErr = NilErr
    /\ Attempt("delete")
    /\ buffer' = buffer \ {sentID}
    /\ uidx' = uidx + 1
    /\ upc' = "loop"
    /\ UNCHANGED <<pipe, udir, names, uerr, upd, sentID, sentMedia, saveErr,
                   uret, savedGifs, ufail>>

\* upload is called on some directory; the pipeline is not running.
InitUpload ==
    /\ jobs = DefaultJobs
    /\ remote = <<>>
    /\ exists = {}
    /\ exists0 = exists
    /\ run = 1
    /\ transfers = [i \in IdsOf(remote) |-> 0]
    /\ doneBefore = {}
    /\ prevOk = FALSE
    /\ FreshRun
    /\ \E d \in Dirs : UploadFresh(d)

NextUpload ==
    \/ UploadReadDirErr
    \/ UploadReadDir
    \/ UploadDone
    \/ UploadFromPathErr
    \/ UploadFromPathOk
    \/ UploadSendErr
    \/ UploadSendOk
    \/ UploadLookupPanic
    \/ UploadLookupNoMessage
    \/ UploadLookupBadType
    \/ UploadLookupBadDoc
    \/ UploadLookupFound
    \/ UploadSaveOk
    \/ UploadSaveErr
    \/ UploadDeleteErr
    \/ UploadDeleteOkSaveErr
    \/ UploadDeleteOk

SpecUpload == InitUpload /\ [][NextUpload]_vars

\* ------------------------------------------------------- upload predicates
Entries == 1..Len(udir)
Mp4Entries == SelectSeq([e \in Entries |-> e], LAMBDA e : udir[e] = ".mp4")
Has(e, step) == \E i \in 1..Len(ulog) : ulog[i] = <<e, step>>
Logged(e) == \E i \in 1..Len(ulog) : ulog[i][1] = e
StepsOf(e) ==
    LET own == SelectSeq(ulog, LAMBDA x : x[1] = e)
    IN [i \in 1..Len(own) |-> own[i][2]]
IsPrefix(s, t) == Len(s) <= Len(t) /\ \A i \in 1..Len(s) : s[i] = t[i]
FlowOrder == <<"from", "send", "lookup", "save", "delete">>
Completed(e) ==
    /\ StepsOf(e) = FlowOrder
    /\ e \in savedGifs
    /\ e \notin buffer

\* C15: for each file the steps attempted are, in this order, upload of the
\* file, send-to-self, look-up of the sent message, save, delete of the buffer
\* message, none of them twice; once the save has been attempted the next
\* step is the delete, whether the save succeeded or failed; and a "save"
\* error is returned only after the delete of that file has been attempted.
C15_StepOrder ==
    /\ \A e \in Entries : IsPrefix(StepsOf(e), FlowOrder)
    /\ \A e \in Entries : (Has(e, "save") /\ upc # "delete") => Has(e, "delete")
    /\ upc = "delete" =>
          /\ Has(Cur, "save") /\ ~Has(Cur, "delete")
          /\ ENABLED UploadDeleteErr
          /\ ~ENABLED (UploadDone \/ UploadFromPathOk \/ UploadSendOk
                       \/ UploadLookupFound \/ UploadSaveOk)
    /\ (UploadReturned /\ uret.wrap = "save") =>
          /\ uret.cause = Failure("save", Cur)
          /\ Has(Cur, "delete")
          /\ Cur \notin savedGifs

\* A save failed on the second file, its buffer message was deleted, and
\* only then the save error came back.
C15_Witness ==
    /\ UploadReturned /\ uret.wrap = "save"
    /\ uidx = 2
    /\ StepsOf(Cur) = FlowOrder
    /\ Cur \notin buffer

\* C16: the error upload returns carries the failure of the step that failed
\* as its cause: a "delete" error the failure of the delete, a "save" error
\* the failure of the save.
C16_ErrorCause ==
    (UploadReturned /\ uret # NoUErr) => uret.cause = ufail

\* The part of C16 that the code keeps: every error but the "delete" one
\* carries its step's failure.
C16_OtherCauses ==
    (UploadReturned /\ uret # NoUErr /\ uret.wrap # "delete") => uret.cause = ufail

\* C17: the .mp4 entries are worked on one at a time in directory order, each
\* step at most once; an entry is touched only when every .mp4 entry before
\* it is completed; after a step failed no other entry is touched and upload
\* returns (a failed save is followed by the delete of the same entry first,
\* C15); what was saved stays saved; and upload returns nil only when every
\* .mp4 entry completed send, save and delete.
C17_SequentialFailFast ==
    /\ [](/\ upc \notin {"idle"} /\ ufail # Failure("dir", 0) => names = Mp4Entries
          /\ \A i, j \in 1..Len(ulog) :
                i < j => /\ ulog[i][1] <= ulog[j][1]
                         /\ ulog[i] # ulog[j]
          /\ \A e \in Entries : Logged(e) =>
                /\ udir[e] = ".mp4"
                /\ \A d \in Entries : (d < e /\ udir[d] = ".mp4") => Completed(d)
          /\ \A e \in Entries : Completed(e) => e \in savedGifs
          /\ (ufail # NilErr /\ ufail # Failure("dir", 0)) =>
                /\ upc \in {"returned", "delete"}
                /\ ulog[Len(ulog)][1] = ufail[2]
                /\ \A e \in Entries : e > ufail[2] => ~Logged(e)
          /\ (UploadReturned /\ uret = NoUErr) =>
                /\ ufail = NilErr
                /\ \A e \in Entries : udir[e] = ".mp4" => Completed(e)
                /\ buffer = {})
    /\ [][/\ upc # "returned"
          /\ savedGifs \subseteq savedGifs'
          /\ ufail # NilErr => upc' = "returned"
          /\ ufail' # ufail => (upc' = "returned" \/ ufail'[1] = "save")]_vars

\* Of three .mp4 files the first was completed, the second failed, and the
\* third was never touched.
C17_Witness ==
    /\ UploadReturned /\ uret # NoUErr
    /\ Len(names) = 3
    /\ Completed(names[1])
    /\ ufail[2] = names[2]
    /\ ~Logged(names[3])

\* C18: when upload returns, the delete of the buffer message has been
\* attempted for every file whose send-to-self succeeded.
C18_NoLeakedBuffer ==
    UploadReturned => \A e \in Entries : Has(e, "lookup") => Has(e, "delete")

\* The paths of C18 that do attempt the delete: success and save failure.
C18_DeletedOnSaveOrSuccess ==
    (UploadReturned /\ uret.wrap \in {"nil", "save", "delete"}) =>
        \A e \in Entries : Has(e, "lookup") => Has(e, "delete")
====
